---- MODULE Spec2Model ----
(***************************************************************************)
(* Model of api/index.py: the DJ agent API.                                *)
(*                                                                         *)
(* A process-wide deque(maxlen=3) of pulse readings is shared by the       *)
(* request handlers /sensor, /spotify and /, which the HTTP runtime runs   *)
(* concurrently (one thread per request).  Each handler is modelled as a   *)
(* sequence of steps, one per access to the shared deque; everything a     *)
(* handler does between two accesses is local and belongs to the step.     *)
(*                                                                         *)
(* Texts are sequences of tokens.  The three field labels are single       *)
(* tokens ("Song:", "Artist:", "Lighting:"); the comma, the double quote,  *)
(* the blank and the newline are themselves; every other token is a        *)
(* character that none of the regular expressions distinguishes.           *)
(* Pulses are integers: the code only compares them (a pulse that float() *)
(* turns into a NaN is outside the model).                                 *)
(***************************************************************************)
EXTENDS Integers, Sequences, FiniteSets, TLC

----------------------------------------------------------------------------
(* Bounds *)

\* readings appended to the deque in one behaviour
MaxAppends == 4
\* tokens in a completion text (exhaustive parser specification)
MaxTextLen == 4

----------------------------------------------------------------------------
(* Text helpers *)

SONG == "Song:"
ARTIST == "Artist:"
LIGHTING == "Lighting:"
COMMA == ","
QUOTE == "\""
BLANK == " "
NEWLINE == "\n"

Labels == {SONG, ARTIST, LIGHTING}

\* \s of the regular expressions, and the separators of str.split()
IsSpace(c) == c \in {BLANK, NEWLINE}

\* t[i] or a token that matches nothing when i is outside t
At(t, i) == IF i \in 1..Len(t) THEN t[i] ELSE "<eos>"

\* a..b are positions of t and hold whitespace
AllSpace(t, a, b) == \A j \in a..b : j \in 1..Len(t) /\ IsSpace(t[j])

\* a..b are positions of t and hold none of the excluded tokens
NoneOf(t, a, b, excluded) == \A j \in a..b : j \in 1..Len(t) /\ t[j] \notin excluded

RECURSIVE LStrip(_)
LStrip(s) == IF s # <<>> /\ IsSpace(Head(s)) THEN LStrip(Tail(s)) ELSE s

RECURSIVE RStrip(_)
RStrip(s) ==
    IF s # <<>> /\ IsSpace(s[Len(s)]) THEN RStrip(SubSeq(s, 1, Len(s) - 1)) ELSE s

\* str.strip()
Strip(s) == RStrip(LStrip(s))

\* str.split(): the maximal runs of tokens that are not whitespace
RECURSIVE Split(_)
Split(s) ==
    LET r == LStrip(s)
        n == IF \E j \in 1..Len(r) : IsSpace(r[j])
             THEN (CHOOSE j \in 1..Len(r) :
                      IsSpace(r[j]) /\ \A k \in 1..(j - 1) : ~IsSpace(r[k])) - 1
             ELSE Len(r)
    IN  IF r = <<>> THEN <<>>
        ELSE <<SubSeq(r, 1, n)>> \o Split(SubSeq(r, n + 1, Len(r)))

\* " ".join(words)
RECURSIVE Join(_)
Join(words) ==
    IF words = <<>> THEN <<>>
    ELSE IF Len(words) = 1 THEN words[1]
    ELSE words[1] \o <<BLANK>> \o Join(Tail(words))

\* variant: strip() only
CleanStripOnly(recommendation) == Strip(recommendation)

\* " ".join(recommendation.strip().split())
Clean(recommendation) == Join(Split(Strip(recommendation)))

----------------------------------------------------------------------------
(* Regular expressions.  A match is a tuple of the choices the backtracking *)
(* matcher makes, in the order it makes them; re.search returns the match  *)
(* that is first in that order: leftmost start, then each greedy quantifier *)
(* as long as possible (each lazy one as short as possible).               *)

\* lexicographic order on tuples of integers of the same length
RECURSIVE LexLeq(_, _)
LexLeq(a, b) ==
    IF a = <<>> THEN TRUE
    ELSE IF Head(a) # Head(b) THEN Head(a) < Head(b)
    ELSE LexLeq(Tail(a), Tail(b))

\* the first of a non-empty set of keys
First(keys) == CHOOSE m \in keys : \A n \in keys : LexLeq(m, n)

NoMatch == <<"None">>

\* the positions of t where the label starts
Occ(t, label) == { i \in 1..Len(t) : t[i] = label }

\* $ : the end of the string, or just before a newline that ends it
AtEnd(t, e) == e = Len(t) + 1 \/ (e = Len(t) /\ t[e] = NEWLINE)

\* ,\s*Label  starting at position e
CommaLabel(t, e, label) ==
    /\ At(t, e) = COMMA
    /\ \E v \in 0..Len(t) :
          /\ AllSpace(t, e + 1, e + v)
          /\ At(t, e + v + 1) = label

\* Song:\s*\"?([^\",]+)\"?(?:,\s*Artist:|$)      group 1, or NoMatch
\* key <<i, -w, -q1, -g, -q2>>: start, blanks, opening quote, group, closing quote
SensorSongRe(t) ==
    LET n == Len(t)
        M == { <<i, 0 - w, 0 - q1, 0 - g, 0 - q2>> :
                 i \in Occ(t, SONG), w \in 0..n, q1 \in 0..1, g \in 1..n, q2 \in 0..1 }
        Ok(m) ==
            LET i == m[1]  w == 0 - m[2]  q1 == 0 - m[3]  g == 0 - m[4]  q2 == 0 - m[5]
                b == i + w + q1
            IN  /\ t[i] = SONG
                /\ AllSpace(t, i + 1, i + w)
                /\ (q1 = 1 => At(t, i + w + 1) = QUOTE)
                /\ NoneOf(t, b + 1, b + g, {QUOTE, COMMA})
                /\ (q2 = 1 => At(t, b + g + 1) = QUOTE)
                /\ \/ CommaLabel(t, b + g + q2 + 1, ARTIST)
                   \/ AtEnd(t, b + g + q2 + 1)
        S == { m \in M : Ok(m) }
    IN  IF S = {} THEN NoMatch
        ELSE LET m == First(S)
                 b == m[1] - m[2] - m[3]
             IN  SubSeq(t, b + 1, b - m[4])

\* Artist:\s*([^,]+)(?:,\s*Lighting:|$)
SensorArtistRe(t) ==
    LET n == Len(t)
        M == { <<i, 0 - w, 0 - g>> : i \in Occ(t, ARTIST), w \in 0..n, g \in 1..n }
        Ok(m) ==
            LET i == m[1]  w == 0 - m[2]  g == 0 - m[3]
                b == i + w
            IN  /\ t[i] = ARTIST
                /\ AllSpace(t, i + 1, i + w)
                /\ NoneOf(t, b + 1, b + g, {COMMA})
                /\ \/ CommaLabel(t, b + g + 1, LIGHTING)
                   \/ AtEnd(t, b + g + 1)
        S == { m \in M : Ok(m) }
    IN  IF S = {} THEN NoMatch
        ELSE LET m == First(S)
                 b == m[1] - m[2]
             IN  SubSeq(t, b + 1, b - m[3])

\* Lighting:\s*([^,\n]+)
SensorLightingRe(t) ==
    LET n == Len(t)
        M == { <<i, 0 - w, 0 - g>> : i \in Occ(t, LIGHTING), w \in 0..n, g \in 1..n }
        Ok(m) ==
            LET i == m[1]  w == 0 - m[2]  g == 0 - m[3]
                b == i + w
            IN  /\ t[i] = LIGHTING
                /\ AllSpace(t, i + 1, i + w)
                /\ NoneOf(t, b + 1, b + g, {COMMA, NEWLINE})
        S == { m \in M : Ok(m) }
    IN  IF S = {} THEN NoMatch
        ELSE LET m == First(S)
                 b == m[1] - m[2]
             IN  SubSeq(t, b + 1, b - m[3])

\* Song:\s*([^,]+),\s*Artist:
SpotifySongRe(t) ==
    LET n == Len(t)
        M == { <<i, 0 - w, 0 - g>> : i \in Occ(t, SONG), w \in 0..n, g \in 1..n }
        Ok(m) ==
            LET i == m[1]  w == 0 - m[2]  g == 0 - m[3]
                b == i + w
            IN  /\ t[i] = SONG
                /\ AllSpace(t, i + 1, i + w)
                /\ NoneOf(t, b + 1, b + g, {COMMA})
                /\ CommaLabel(t, b + g + 1, ARTIST)
        S == { m \in M : Ok(m) }
    IN  IF S = {} THEN NoMatch
        ELSE LET m == First(S)
                 b == m[1] - m[2]
             IN  SubSeq(t, b + 1, b - m[3])

\* Artist:\s*(.+?)(?:\n|$)        the group is lazy: key <<i, -w, g>>
SpotifyArtistRe(t) ==
    LET n == Len(t)
        M == { <<i, 0 - w, g>> : i \in Occ(t, ARTIST), w \in 0..n, g \in 1..n }
        Ok(m) ==
            LET i == m[1]  w == 0 - m[2]  g == m[3]
                b == i + w
            IN  /\ t[i] = ARTIST
                /\ AllSpace(t, i + 1, i + w)
                /\ NoneOf(t, b + 1, b + g, {NEWLINE})
                /\ \/ At(t, b + g + 1) = NEWLINE
                   \/ AtEnd(t, b + g + 1)
        S == { m \in M : Ok(m) }
    IN  IF S = {} THEN NoMatch
        ELSE LET m == First(S)
                 b == m[1] - m[2]
             IN  SubSeq(t, b + 1, b + m[3])

\* variant: a miss yields the empty string
FieldNoFallback(m, fallback) == IF m # NoMatch THEN Strip(m) ELSE <<>>

\* m.group(1).strip() if m else fallback
Field(m, fallback) == IF m # NoMatch THEN Strip(m) ELSE fallback


----------------------------------------------------------------------------
(* Fallback literals *)

SensorSongFallback == <<"Sweet but Psycho">>
SensorArtistFallback == <<"Ava Max">>
SensorLightingFallback == <<"red">>
SpotifySongFallback == <<"Uptown Funk">>
SpotifyArtistFallback == <<"Mark Ronson">>

\* process_sensor, from the cleaning of the completion text to the response
SensorRecommendation(mood, recommendation) ==
    LET text == Clean(recommendation)
    IN  [mood     |-> mood,
         song     |-> Field(SensorSongRe(text), SensorSongFallback),
         artist   |-> Field(SensorArtistRe(text), SensorArtistFallback),
         lighting |-> Field(SensorLightingRe(text), SensorLightingFallback),
         status   |-> "success",
         code     |-> 200]

\* process_spotify, from the cleaning of the completion text to the response
SpotifyRecommendation(recommendation) ==
    LET text == Clean(recommendation)
    IN  [artist |-> Field(SpotifyArtistRe(text), SpotifyArtistFallback),
         song   |-> Field(SpotifySongRe(text), SpotifySongFallback),
         status |-> "success",
         code   |-> 200]

\* variant: the error body without the 500 status
ErrorResponseOk(e) == [status |-> "error", message |-> e, code |-> 200]

\* the except clause of both handlers
ErrorResponse(e) == [status |-> "error", message |-> e, code |-> 500]

----------------------------------------------------------------------------
(* Mood *)

Moods == {"excited", "chill", "festive", "hyped"}

\* [h["pulse"] for h in history]
PulsesOf(history) == [j \in 1..Len(history) |-> history[j].pulse]

\* variant: the upper threshold belongs to excited
infer_mood_threshold(pulse, history) ==
    LET recent_pulses == PulsesOf(history)
        n == Len(recent_pulses)
        trend == IF Len(history) >= 2
                 THEN IF recent_pulses[n] > recent_pulses[n - 1] THEN "rising"
                      ELSE IF recent_pulses[n] < recent_pulses[n - 1] THEN "falling"
                      ELSE "stable"
                 ELSE "stable"
    IN  IF pulse >= 100 /\ trend \in {"rising", "stable"} THEN "excited"
        ELSE IF pulse < 80 /\ trend \in {"falling", "stable"} THEN "chill"
        ELSE IF 80 <= pulse /\ pulse <= 100 THEN "festive"
        ELSE "hyped"

\* variant: the trend compares the two oldest readings
infer_mood_oldest(pulse, history) ==
    LET recent_pulses == PulsesOf(history)
        trend == IF Len(history) >= 2
                 THEN IF recent_pulses[2] > recent_pulses[1] THEN "rising"
                      ELSE IF recent_pulses[2] < recent_pulses[1] THEN "falling"
                      ELSE "stable"
                 ELSE "stable"
    IN  IF pulse > 100 /\ trend \in {"rising", "stable"} THEN "excited"
        ELSE IF pulse < 80 /\ trend \in {"falling", "stable"} THEN "chill"
        ELSE IF 80 <= pulse /\ pulse <= 100 THEN "festive"
        ELSE "hyped"

infer_mood(pulse, history) ==
    LET recent_pulses == PulsesOf(history)
        n == Len(recent_pulses)
        trend == IF Len(history) >= 2
                 THEN IF recent_pulses[n] > recent_pulses[n - 1] THEN "rising"
                      ELSE IF recent_pulses[n] < recent_pulses[n - 1] THEN "falling"
                      ELSE "stable"
                 ELSE "stable"
    IN  IF pulse > 100 /\ trend \in {"rising", "stable"} THEN "excited"
        ELSE IF pulse < 80 /\ trend \in {"falling", "stable"} THEN "chill"
        ELSE IF 80 <= pulse /\ pulse <= 100 THEN "festive"
        ELSE "hyped"

----------------------------------------------------------------------------
(* The shared deque *)

\* deque(maxlen=3)
maxlen == 3

\* variant: a deque without maxlen
DequeAppendUnbounded(d, x) == Append(d, x)

\* variant: a full deque drops the new item
DequeAppendDropNew(d, x) == IF Len(d) = maxlen THEN d ELSE Append(d, x)

\* deque.append: the oldest item is dropped when the deque is full
DequeAppend(d, x) ==
    IF Len(d) = maxlen THEN Append(Tail(d), x) ELSE Append(d, x)

----------------------------------------------------------------------------
(* State *)

VARIABLES
    pulse_history,  \* the deque: a sequence of readings [pulse |-> p]; the
                    \* timestamp of a reading is written and never read
    accepted,       \* every pulse ever appended, in order; its length is the
                    \* deque's mutation counter (deque->state)
    thr             \* the request each worker thread is handling

vars == <<pulse_history, accepted, thr>>

\* worker threads of the HTTP runtime
Procs == {1, 2}

\* pulse values a client sends: when requests are handled concurrently,
\* and when they are handled one at a time
ConcPulses == {110}
SeqPulses == {70, 90, 110}

\* request.json of a /sensor request: not an object, or an object whose
\* "pulse" is absent, a number, or something float() rejects
SensorBodies(Pulses) ==
    {[type |-> "null", key |-> "absent", value |-> 0],
     [type |-> "object", key |-> "absent", value |-> 0],
     [type |-> "object", key |-> "text", value |-> 0]}
    \cup {[type |-> "object", key |-> "number", value |-> v] : v \in Pulses}

\* request.json of a /spotify request: not an object, an object whose queue
\* items lack "song" or "artist", or a well-formed object
SpotifyBodies == {"null", "badqueue", "object"}

\* what chat.completions.create does: raise, return no choice, return a
\* choice without content, or return a text
Outcomes == {"raise", "nochoice", "nocontent", "text"}

\* completion texts of the handler specifications
MainTexts ==
    {<<SONG, BLANK, "x", COMMA, NEWLINE, ARTIST, BLANK, "y", COMMA, BLANK,
       LIGHTING, BLANK, "z">>,
     <<"x">>}

NoResponse == [status |-> "none"]

Idle ==
    [pc |-> "idle", kind |-> "none", pulse |-> 0, mood |-> "none",
     badqueue |-> FALSE, it_state |-> 0, calls |-> 0, exc |-> "",
     recommendation |-> <<>>, response |-> NoResponse]

\* the mutation counter of the deque
DequeState == Len(accepted)

Init ==
    /\ pulse_history = <<>>
    /\ accepted = <<>>
    /\ thr = [p \in Procs |-> Idle]

----------------------------------------------------------------------------
(* Steps of the handlers *)

\* the handler returns: its response is on the way.  Of its locals the
\* record keeps the pulse and the completion text the response comes from.
Done(t, kind, calls, exc, response) ==
    [Idle EXCEPT !.pc = "done", !.kind = kind, !.calls = calls, !.exc = exc,
                 !.pulse = t.pulse, !.recommendation = t.recommendation,
                 !.response = response]

\* an exception reaches the except clause: the handler returns the error
Raise(p, kind, exc) ==
    thr' = [thr EXCEPT ![p] =
              Done(@, kind, thr[p].calls, exc, ErrorResponse(exc))]

\* /sensor, from the request to the append
SensorAppend(p, data) ==
    /\ thr[p].pc = "idle"
    /\ IF data.type # "object"
       THEN /\ Raise(p, "sensor", "AttributeError")
            /\ UNCHANGED <<pulse_history, accepted>>
       ELSE IF data.key = "text"
       THEN /\ Raise(p, "sensor", "ValueError")
            /\ UNCHANGED <<pulse_history, accepted>>
       ELSE LET pulse == IF data.key = "absent" THEN 80 ELSE data.value
            IN  /\ Len(accepted) < MaxAppends
                /\ pulse_history' = DequeAppend(pulse_history, [pulse |-> pulse])
                /\ accepted' = Append(accepted, pulse)
                /\ thr' = [thr EXCEPT ![p] =
                             [@ EXCEPT !.pc = "infer", !.kind = "sensor",
                                       !.pulse = pulse]]

\* /spotify, from the request to the read of the latest pulse
SpotifyLatest(p, data) ==
    /\ thr[p].pc = "idle"
    /\ UNCHANGED <<pulse_history, accepted>>
    /\ IF data = "null"
       THEN Raise(p, "spotify", "AttributeError")
       ELSE LET latest_pulse ==
                    IF pulse_history # <<>>
                    THEN pulse_history[Len(pulse_history)].pulse ELSE 80
            IN  thr' = [thr EXCEPT ![p] =
                          [@ EXCEPT !.pc = "infer", !.kind = "spotify",
                                    !.pulse = latest_pulse,
                                    !.badqueue = (data = "badqueue")]]

\* /
Index(p) ==
    /\ thr[p].pc = "idle"
    /\ thr' = [thr EXCEPT ![p] =
                 Done(@, "index", 0, "", [status |-> "welcome", code |-> 200])]
    /\ UNCHANGED <<pulse_history, accepted>>

\* infer_mood: len(history) >= 2; with fewer readings the trend is stable
\* and the mood is known, otherwise the comprehension starts to iterate
InferLen(p) ==
    /\ thr[p].pc = "infer"
    /\ IF Len(pulse_history) >= 2
       THEN thr' = [thr EXCEPT ![p] = [@ EXCEPT !.pc = "infer_iter",
                                                !.it_state = DequeState]]
       ELSE thr' = [thr EXCEPT ![p] =
                      [@ EXCEPT !.pc = "prompt", !.it_state = 0,
                                !.mood = infer_mood(thr[p].pulse, pulse_history)]]
    /\ UNCHANGED <<pulse_history, accepted>>

\* infer_mood: the comprehension ends (the deque iterator raises when the
\* deque was mutated since the iterator was made), trend and classification
InferTrend(p) ==
    /\ thr[p].pc = "infer_iter"
    /\ IF thr[p].it_state # DequeState
       THEN Raise(p, thr[p].kind, "RuntimeError")
       ELSE thr' = [thr EXCEPT ![p] =
                      [@ EXCEPT !.pc = "prompt", !.it_state = 0,
                                !.mood = infer_mood(thr[p].pulse, pulse_history)]]
    /\ UNCHANGED <<pulse_history, accepted>>

\* the prompt: /spotify renders the queue, then both handlers start to
\* iterate over the deque for the pulse list
PromptStart(p) ==
    /\ thr[p].pc = "prompt"
    /\ IF thr[p].badqueue
       THEN Raise(p, thr[p].kind, "KeyError")
       ELSE thr' = [thr EXCEPT ![p] = [@ EXCEPT !.pc = "prompt_iter",
                                                !.it_state = DequeState]]
    /\ UNCHANGED <<pulse_history, accepted>>

\* the prompt: the comprehension over the deque ends
PromptEnd(p) ==
    /\ thr[p].pc = "prompt_iter"
    /\ IF thr[p].it_state # DequeState
       THEN Raise(p, thr[p].kind, "RuntimeError")
       ELSE thr' = [thr EXCEPT ![p] = [@ EXCEPT !.pc = "call", !.it_state = 0]]
    /\ UNCHANGED <<pulse_history, accepted>>

\* chat.completions.create and response.choices[0].message.content
Complete(p, outcome, text) ==
    /\ thr[p].pc = "call"
    /\ thr' = [thr EXCEPT ![p] =
                 IF outcome = "raise"
                 THEN Done(@, @.kind, @.calls + 1, "APIError", ErrorResponse("APIError"))
                 ELSE IF outcome = "nochoice"
                 THEN Done(@, @.kind, @.calls + 1, "IndexError",
                           ErrorResponse("IndexError"))
                 ELSE IF outcome = "nocontent"
                 THEN Done(@, @.kind, @.calls + 1, "AttributeError",
                           ErrorResponse("AttributeError"))
                 ELSE [@ EXCEPT !.pc = "parse", !.calls = @ + 1,
                                !.recommendation = text]]
    /\ UNCHANGED <<pulse_history, accepted>>

\* /sensor: clean the text, parse it, answer
SensorParse(p) ==
    /\ thr[p].pc = "parse"
    /\ thr[p].kind = "sensor"
    /\ thr' = [thr EXCEPT ![p] =
                 Done(@, "sensor", @.calls, "",
                      SensorRecommendation(@.mood, @.recommendation))]
    /\ UNCHANGED <<pulse_history, accepted>>

\* /spotify: clean the text, parse it, answer
SpotifyParse(p) ==
    /\ thr[p].pc = "parse"
    /\ thr[p].kind = "spotify"
    /\ thr' = [thr EXCEPT ![p] =
                 Done(@, "spotify", @.calls, "",
                      SpotifyRecommendation(@.recommendation))]
    /\ UNCHANGED <<pulse_history, accepted>>

\* the response is sent and the thread takes the next request
Return(p) ==
    /\ thr[p].pc = "done"
    /\ thr' = [thr EXCEPT ![p] = Idle]
    /\ UNCHANGED <<pulse_history, accepted>>

\* a thread takes a request
Start(p, Pulses) ==
    \/ \E data \in SensorBodies(Pulses) : SensorAppend(p, data)
    \/ \E data \in SpotifyBodies : SpotifyLatest(p, data)
    \/ Index(p)

\* a thread goes on with its request
Step(p) ==
    \/ InferLen(p)
    \/ InferTrend(p)
    \/ PromptStart(p)
    \/ PromptEnd(p)
    \/ \E outcome \in Outcomes : \E text \in MainTexts :
          Complete(p, outcome, text)
    \/ SensorParse(p)
    \/ SpotifyParse(p)
    \/ Return(p)

Next == \E p \in Procs : Start(p, ConcPulses) \/ Step(p)

\* requests are handled concurrently
Spec == Init /\ [][Next]_vars

\* no thread is handling a request
AllIdle == \A p \in Procs : thr[p].pc = "idle"

\* the three ways to take a request, when no other request is being handled
SensorAppendAlone(p, data) == AllIdle /\ SensorAppend(p, data)
SpotifyLatestAlone(p, data) == AllIdle /\ SpotifyLatest(p, data)
IndexAlone(p) == AllIdle /\ Index(p)

NextSeq ==
    \E p \in Procs :
        \/ \E data \in SensorBodies(SeqPulses) : SensorAppendAlone(p, data)
        \/ \E data \in SpotifyBodies : SpotifyLatestAlone(p, data)
        \/ IndexAlone(p)
        \/ Step(p)

\* requests are handled one at a time
SpecSeq == Init /\ [][NextSeq]_vars

----------------------------------------------------------------------------
(* The mood classifier on its own: a /spotify handler about to call        *)
(* infer_mood, for every latest pulse and every history.                   *)

\* pulses around the two thresholds
MoodPulses == {79, 80, 100, 101}

\* the sequences over S of length 0..n
SeqsUpTo(S, n) == UNION {[1..k -> S] : k \in 0..n}

\* a handler that is about to call infer_mood
AtInfer(kind, pulse) ==
    [Idle EXCEPT !.pc = "infer", !.kind = kind, !.pulse = pulse]

InitMood ==
    /\ accepted \in SeqsUpTo(MoodPulses, maxlen)
    /\ pulse_history = [j \in 1..Len(accepted) |-> [pulse |-> accepted[j]]]
    /\ \E pulse \in MoodPulses :
          /\ pulse_history = <<>> => pulse = 80
          /\ thr = [p \in Procs |->
                      IF p = 1 THEN AtInfer("spotify", pulse) ELSE Idle]

NextMood == \E p \in Procs : InferLen(p) \/ InferTrend(p)

SpecMood == InitMood /\ [][NextMood]_vars

----------------------------------------------------------------------------
(* The parsers on their own: a handler whose completion call has returned. *)

Alphabet == {SONG, ARTIST, LIGHTING, COMMA, QUOTE, BLANK, NEWLINE, "x"}

\* a handler that holds the completion text, after a reading of 80
AtParse(kind, text) ==
    [Idle EXCEPT !.pc = "parse", !.kind = kind, !.pulse = 80,
                 !.mood = "festive", !.calls = 1, !.recommendation = text]

InitTexts(texts) ==
    /\ pulse_history = <<[pulse |-> 80]>>
    /\ accepted = <<80>>
    /\ \E kind \in {"sensor", "spotify"} : \E text \in texts :
          thr = [p \in Procs |-> IF p = 1 THEN AtParse(kind, text) ELSE Idle]

NextParse == \E p \in Procs : SensorParse(p) \/ SpotifyParse(p)

\* every completion text of at most MaxTextLen tokens
InitParse == InitTexts(SeqsUpTo(Alphabet, MaxTextLen))

SpecParse == InitParse /\ [][NextParse]_vars

\* values of a field: no comma, no quote, no label, whitespace only inside
Values ==
    {<<"x">>, <<"x", BLANK, "y">>, <<"x", NEWLINE, "y">>,
     <<"x", BLANK, BLANK, "y">>}

\* whitespace between the tokens of a completion text
Gaps == {<<>>, <<BLANK>>, <<NEWLINE, BLANK>>}

\* Song: S, Artist: A[, Lighting: L] with gap g[1] around the text, g[2]
\* after a label, g[3] before a comma and g[4] after a comma
Formatted(kind, S, A, L, g) ==
    LET song == <<SONG>> \o g[2] \o S \o g[3]
        artist == <<COMMA>> \o g[4] \o <<ARTIST>> \o g[2] \o A
        lighting == g[3] \o <<COMMA>> \o g[4] \o <<LIGHTING>> \o g[2] \o L
    IN  IF kind = "sensor"
        THEN g[1] \o song \o artist \o lighting \o g[1]
        ELSE g[1] \o song \o artist \o g[1]

InitFormat ==
    /\ pulse_history = <<[pulse |-> 80]>>
    /\ accepted = <<80>>
    /\ \E kind \in {"sensor", "spotify"} :
       \E S \in Values, A \in Values, L \in Values, g \in [1..4 -> Gaps] :
          thr = [p \in Procs |->
                   IF p = 1 THEN AtParse(kind, Formatted(kind, S, A, L, g))
                   ELSE Idle]

\* every completion text in the format the prompts ask for
SpecFormat == InitFormat /\ [][NextParse]_vars

----------------------------------------------------------------------------
(* Properties *)

\* C1: the history holds exactly the pulses of the last min(n, 3) accepted
\* /sensor requests, in arrival order, n being the number of such requests;
\* it never holds more than 3, and no other request changes it.
C1_HistoryIsLastThree ==
    LET n == Len(accepted)
        m == IF n < 3 THEN n ELSE 3
    IN  /\ Len(pulse_history) <= 3
        /\ Len(pulse_history) = m
        /\ \A j \in 1..m : pulse_history[j].pulse = accepted[n - m + j]

\* C1 witness: a 4th reading has been appended and the first one, which
\* differs from the others, is gone
C1_Witness ==
    /\ Len(accepted) = 4
    /\ accepted[1] = 80
    /\ PulsesOf(pulse_history) = <<110, 110, 110>>
    /\ \E p \in Procs : thr[p].pc = "done" /\ thr[p].kind = "spotify"

\* C2: infer_mood returns excited if pulse > 100 and the trend is rising or
\* stable, chill if pulse < 80 and the trend is falling or stable, festive if
\* 80 <= pulse <= 100, hyped otherwise; the trend compares the last two
\* readings of the history and is stable with fewer than two.
C2_MoodTable ==
    \A p \in Procs :
        thr[p].pc = "prompt" =>
            LET pulse == thr[p].pulse
                n == Len(pulse_history)
                rising == n >= 2 /\ pulse_history[n].pulse > pulse_history[n - 1].pulse
                falling == n >= 2 /\ pulse_history[n].pulse < pulse_history[n - 1].pulse
                stable == ~rising /\ ~falling
                mood == thr[p].mood
            IN  /\ mood \in {"excited", "chill", "festive", "hyped"}
                /\ (pulse > 100 /\ (rising \/ stable)) => mood = "excited"
                /\ (pulse < 80 /\ (falling \/ stable)) => mood = "chill"
                /\ (80 <= pulse /\ pulse <= 100) => mood = "festive"
                /\ (pulse > 100 /\ falling) => mood = "hyped"
                /\ (pulse < 80 /\ rising) => mood = "hyped"

\* C2 witness: a pulse under 80 on a rising history of three is hyped
C2_Witness ==
    \E p \in Procs :
        /\ thr[p].pc = "prompt"
        /\ thr[p].pulse = 79
        /\ PulsesOf(pulse_history) = <<101, 79, 80>>
        /\ thr[p].mood = "hyped"

\* C3: handled one at a time, a /sensor request classifies its own pulse
\* with the trend between the previous accepted pulse and its own (stable if
\* there is none); after the pulses 70, 90, 110 the history is [70, 90, 110]
\* and the third request's mood is excited.
C3_SequentialMood ==
    \A p \in Procs :
        LET t == thr[p]
            mood == IF t.pc = "done"
                    THEN IF t.response.status = "success"
                         THEN t.response.mood ELSE "none"
                    ELSE t.mood
            n == Len(accepted)
            rising == n >= 2 /\ accepted[n] > accepted[n - 1]
            falling == n >= 2 /\ accepted[n] < accepted[n - 1]
        IN  (t.kind = "sensor" /\ mood # "none") =>
                /\ t.pulse = accepted[n]
                /\ mood = IF t.pulse > 100 /\ ~falling THEN "excited"
                          ELSE IF t.pulse < 80 /\ ~rising THEN "chill"
                          ELSE IF 80 <= t.pulse /\ t.pulse <= 100 THEN "festive"
                          ELSE "hyped"
                /\ accepted = <<70, 90, 110>> =>
                      /\ PulsesOf(pulse_history) = <<70, 90, 110>>
                      /\ mood = "excited"

\* C3 witness: the third of the requests 70, 90, 110 has answered excited
C3_Witness ==
    \E p \in Procs :
        /\ thr[p].pc = "done"
        /\ thr[p].kind = "sensor"
        /\ thr[p].response.status = "success"
        /\ thr[p].response.mood = "excited"
        /\ accepted = <<70, 90, 110>>
        /\ PulsesOf(pulse_history) = <<70, 90, 110>>

\* C4: under any interleaving, the mood a request computes is the
\* classification of the most recent reading of the history, with the trend
\* of the history's last two readings, at the moment of classification.
C4_MoodFromHistoryAlone ==
    [][\A p \in Procs :
          (thr[p].mood = "none" /\ thr'[p].mood # "none" /\ pulse_history # <<>>) =>
              LET n == Len(pulse_history)
                  latest == pulse_history[n].pulse
                  rising == n >= 2 /\ latest > pulse_history[n - 1].pulse
                  falling == n >= 2 /\ latest < pulse_history[n - 1].pulse
              IN  thr'[p].mood =
                      IF latest > 100 /\ ~falling THEN "excited"
                      ELSE IF latest < 80 /\ ~rising THEN "chill"
                      ELSE IF 80 <= latest /\ latest <= 100 THEN "festive"
                      ELSE "hyped"]_vars

\* C5: every field of a success response is a non-empty string; a label
\* followed only by whitespace yields the fallback, never the empty string.
C5_FieldsNonEmpty ==
    \A p \in Procs :
        (thr[p].pc = "done" /\ thr[p].response.status = "success") =>
            /\ thr[p].response.song # <<>>
            /\ thr[p].response.artist # <<>>
            /\ thr[p].kind = "sensor" => thr[p].response.lighting # <<>>

\* C6 as stated: on "Song: S, Artist: A, Lighting: L" with any whitespace
\* between the tokens, the parsers return S, A and L themselves (the
\* playback parser S and A, and no lighting field).
C6_FormattedValuesVerbatim ==
    \A p \in Procs :
        thr[p].pc = "done" =>
            LET r == thr[p].recommendation
                Value(label) ==
                    LET i == CHOOSE i \in 1..Len(r) : r[i] = label
                        commas == {j \in (i + 1)..Len(r) : r[j] = COMMA}
                        e == IF commas = {} THEN Len(r) + 1
                             ELSE CHOOSE j \in commas : \A k \in commas : j <= k
                    IN  Strip(SubSeq(r, i + 1, e - 1))
            IN  /\ thr[p].response.song = Value(SONG)
                /\ thr[p].response.artist = Value(ARTIST)
                /\ IF thr[p].kind = "sensor"
                   THEN thr[p].response.lighting = Value(LIGHTING)
                   ELSE "lighting" \notin DOMAIN thr[p].response

\* C6 amended: the parsers return S, A and L with every run of whitespace
\* inside a value replaced by one blank.
C6_FormattedValuesCollapsed ==
    \A p \in Procs :
        thr[p].pc = "done" =>
            LET r == thr[p].recommendation
                Value(label) ==
                    LET i == CHOOSE i \in 1..Len(r) : r[i] = label
                        commas == {j \in (i + 1)..Len(r) : r[j] = COMMA}
                        e == IF commas = {} THEN Len(r) + 1
                             ELSE CHOOSE j \in commas : \A k \in commas : j <= k
                    IN  Strip(SubSeq(r, i + 1, e - 1))
                Collapsed(v) ==
                    LET kept == {j \in 1..Len(v) :
                                    ~IsSpace(v[j]) \/ (j > 1 /\ ~IsSpace(v[j - 1]))}
                    IN  [k \in 1..Cardinality(kept) |->
                           LET j == CHOOSE j \in kept :
                                       Cardinality({i \in kept : i <= j}) = k
                           IN  IF IsSpace(v[j]) THEN BLANK ELSE v[j]]
            IN  /\ thr[p].response.song = Collapsed(Value(SONG))
                /\ thr[p].response.artist = Collapsed(Value(ARTIST))
                /\ IF thr[p].kind = "sensor"
                   THEN thr[p].response.lighting = Collapsed(Value(LIGHTING))
                   ELSE "lighting" \notin DOMAIN thr[p].response

\* C6 witness: /sensor has answered a text that starts with a newline and
\* whose song holds a newline
C6_Witness ==
    \E p \in Procs :
        /\ thr[p].pc = "done"
        /\ thr[p].kind = "sensor"
        /\ Head(thr[p].recommendation) = NEWLINE
        /\ SubSeq(thr[p].recommendation, 3, 8) = <<SONG, BLANK, "x", NEWLINE, "y", COMMA>>
        /\ thr[p].response.song = <<"x", BLANK, "y">>
        /\ thr[p].response.artist = <<"x">>
        /\ thr[p].response.lighting = <<"x">>

\* C7: a field whose label occurs in the text is the text after the label
\* up to the next comma, the next label or the end of the string, without
\* the surrounding whitespace and the enclosing quotes (checked where that
\* text is not empty).
C7_FieldUpToCommaOrLabel ==
    \A p \in Procs :
        thr[p].pc = "done" =>
            LET t == Clean(thr[p].recommendation)
                Has(label) == \E i \in 1..Len(t) : t[i] = label
                Value(label) ==
                    LET i == CHOOSE i \in 1..Len(t) :
                                /\ t[i] = label
                                /\ \A k \in 1..(i - 1) : t[k] # label
                        stops == {j \in (i + 1)..Len(t) : t[j] \in {COMMA} \cup Labels}
                        e == IF stops = {} THEN Len(t) + 1
                             ELSE CHOOSE j \in stops : \A k \in stops : j <= k
                        v == Strip(SubSeq(t, i + 1, e - 1))
                        a == IF v # <<>> /\ v[1] = QUOTE THEN 2 ELSE 1
                        b == IF Len(v) >= a /\ v[Len(v)] = QUOTE
                             THEN Len(v) - 1 ELSE Len(v)
                    IN  Strip(SubSeq(v, a, b))
                Holds(label, field) ==
                    (Has(label) /\ Value(label) # <<>>) => field = Value(label)
            IN  /\ Holds(SONG, thr[p].response.song)
                /\ Holds(ARTIST, thr[p].response.artist)
                /\ thr[p].kind = "sensor" => Holds(LIGHTING, thr[p].response.lighting)

\* C8: a text without labels is answered with status success and the
\* fallbacks ("Sweet but Psycho", "Ava Max", "red" for /sensor, "Uptown
\* Funk", "Mark Ronson" for /spotify); each field whose own label is missing
\* falls back, whatever the other labels.
C8_FallbackPerField ==
    \A p \in Procs :
        thr[p].pc = "done" =>
            LET r == thr[p].recommendation
                Missing(label) == \A i \in 1..Len(r) : r[i] # label
                resp == thr[p].response
            IN  /\ resp.status = "success"
                /\ thr[p].kind = "sensor" =>
                      /\ Missing(SONG) => resp.song = <<"Sweet but Psycho">>
                      /\ Missing(ARTIST) => resp.artist = <<"Ava Max">>
                      /\ Missing(LIGHTING) => resp.lighting = <<"red">>
                /\ thr[p].kind = "spotify" =>
                      /\ Missing(SONG) => resp.song = <<"Uptown Funk">>
                      /\ Missing(ARTIST) => resp.artist = <<"Mark Ronson">>

\* C8 witness: /sensor has answered a text of three tokens without labels
C8_Witness ==
    \E p \in Procs :
        /\ thr[p].pc = "done"
        /\ thr[p].kind = "sensor"
        /\ thr[p].recommendation = <<"x", BLANK, "x">>
        /\ thr[p].response.status = "success"
        /\ thr[p].response.song = <<"Sweet but Psycho">>
        /\ thr[p].response.artist = <<"Ava Max">>
        /\ thr[p].response.lighting = <<"red">>

\* C9: a /sensor or /spotify request ends either in a success response with
\* all its fields or in {status: error, message: cause} with status 500;
\* every failure ends in the error response; a request issues at most one
\* completion call.
C9_SuccessOrError ==
    \A p \in Procs :
        /\ thr[p].calls <= 1
        /\ (thr[p].pc = "done" /\ thr[p].kind \in {"sensor", "spotify"}) =>
              LET resp == thr[p].response
              IN  \/ /\ thr[p].exc = ""
                     /\ thr[p].calls = 1
                     /\ resp.status = "success"
                     /\ resp.code = 200
                     /\ DOMAIN resp =
                           IF thr[p].kind = "sensor"
                           THEN {"mood", "song", "artist", "lighting", "status", "code"}
                           ELSE {"song", "artist", "status", "code"}
                  \/ /\ thr[p].exc \in {"AttributeError", "ValueError", "KeyError",
                                        "RuntimeError", "APIError", "IndexError"}
                     /\ DOMAIN resp = {"status", "message", "code"}
                     /\ resp.status = "error"
                     /\ resp.message = thr[p].exc
                     /\ resp.code = 500

\* C9 witness: a /sensor request has ended in the error of a failed
\* completion call while a /spotify request has ended in success
C9_Witness ==
    \E p \in Procs, q \in Procs :
        /\ thr[p].pc = "done" /\ thr[p].kind = "sensor"
        /\ thr[p].response.status = "error" /\ thr[p].calls = 1
        /\ thr[q].pc = "done" /\ thr[q].kind = "spotify"
        /\ thr[q].response.status = "success"

\* C10: a /sensor request that fails on its body or pulse answers the error
\* and leaves the history as it was; one that fails after the completion
\* call answers the error with its reading appended as the latest (the
\* oldest evicted from a full history); the mood a request computes then is
\* the classification of the latest reading with the trend of the last two.
C10_FailedSensorAndHistory ==
    [][\A p \in Procs :
          /\ (thr[p].pc = "idle" /\ thr'[p].pc = "done" /\ thr'[p].kind = "sensor") =>
                /\ thr'[p].response.status = "error"
                /\ pulse_history' = pulse_history
          /\ (thr[p].pc \in {"call", "parse"} /\ thr[p].kind = "sensor"
                /\ thr'[p].pc = "done" /\ thr'[p].response.status = "error") =>
                LET n == Len(pulse_history')
                    k == Len(accepted')
                IN  /\ n >= 1
                    /\ pulse_history'[n].pulse = thr[p].pulse
                    /\ accepted'[k] = thr[p].pulse
                    /\ n = (IF k < 3 THEN k ELSE 3)
                    /\ \A j \in 1..n : pulse_history'[j].pulse = accepted'[k - n + j]
          /\ (thr[p].mood = "none" /\ thr'[p].mood # "none" /\ pulse_history # <<>>) =>
                LET n == Len(pulse_history)
                    latest == pulse_history[n].pulse
                    rising == n >= 2 /\ latest > pulse_history[n - 1].pulse
                    falling == n >= 2 /\ latest < pulse_history[n - 1].pulse
                IN  /\ thr'[p].pulse = latest
                    /\ thr'[p].mood =
                          IF latest > 100 /\ ~falling THEN "excited"
                          ELSE IF latest < 80 /\ ~rising THEN "chill"
                          ELSE IF 80 <= latest /\ latest <= 100 THEN "festive"
                          ELSE "hyped"]_vars

\* C10 witness: a /sensor request with pulse 70 has failed on its
\* completion call; its reading is the fourth and the latest of the history
C10_Witness ==
    \E p \in Procs :
        /\ thr[p].pc = "done"
        /\ thr[p].kind = "sensor"
        /\ thr[p].response.status = "error"
        /\ thr[p].calls = 1
        /\ thr[p].pulse = 70
        /\ Len(accepted) = 4
        /\ PulsesOf(pulse_history) = <<110, 90, 70>>

====
